---- MODULE Spec2Model ----
(***************************************************************************)
(* Timer registry, timer state machine and deferred notifier of pomobot.   *)
(*                                                                         *)
(* Two implementations are modelled over the same state:                   *)
(*   - the saved-flag implementation (src/unnamed/part_001): activeTimers  *)
(*     is a Map, times are unix seconds, entries carry a saved flag;       *)
(*   - src/app.js: activeTimers is a plain object, times are milliseconds. *)
(*                                                                         *)
(* timerInfo objects live on a heap (timers); the registry and the         *)
(* setTimeout closures hold references (indices) into it, so an object     *)
(* that was overwritten in the registry is still reachable by its closure. *)
(* Every await of a handler is a suspension point: the handler's           *)
(* continuation is parked in inflight and resumed by a later step.         *)
(***************************************************************************)
EXTENDS Integers, Sequences, FiniteSets, TLC

\* ---------------------------------------------------------------- bounds
MaxTimers   == 2      \* /timer commands handled in one run
MaxTime     == 60     \* last clock value, seconds
TickStep    == 30     \* seconds the clock advances at a time
MaxInflight == 2      \* handlers suspended at an await at one time
MaxRequests == 4      \* inbound interactions handled in one run
MaxSaves    == 2      \* saveStudySession invocations in one run
MaxPrompts  == 2      \* delivered prompts counted per timer (saturating)
MaxInputLen == 5      \* characters in the text given to /timer
MaxMinutes  == 22     \* largest number of minutes looked for in an input

Users     == {"u1", "u2"}
Guilds    == {"g1"}
Durations == {30, 60}            \* seconds, as returned by parseTimerInput
Keys      == Users \X Guilds     \* `${member.user.id}_${guild_id}`

\* ------------------------------------------------------ program constants
RUNNING   == "running"
PAUSED    == "paused"
COMPLETED == "completed"
STOPPED   == "stopped"

MinSavableSeconds    == 60       \* part_001: elapsedTime >= 60
AppMinSavableSeconds == 6        \* app.js:   elapsedTime >= 6

NoTimeout == 0                   \* falsy timeoutId (undefined / null)
NotSet    == 0 - 1000000         \* a field the object literal does not set
NoEntry   == 0                   \* activeTimers.get(key) === undefined

VARIABLES
  now,                 \* Math.floor(Date.now() / 1000)
  timers,              \* heap of timerInfo objects, in creation order
  activeTimers,        \* registry: key -> index into timers, or NoEntry
  timeouts,            \* pending setTimeout callbacks
  inflight,            \* handler continuations suspended at an await
  sessions,            \* rows inserted into study_sessions
  saveCalls,           \* invocations of saveStudySession, per timer (history)
  prompts,             \* completion prompts delivered, per timer (history)
  posts,               \* prompt POSTs sent and not yet answered, per timer
  response,            \* the response sent by the step just taken, if any
  requests,            \* inbound interactions handled so far
  stopped,             \* timers a timer_stop has been answered for (history)
  exited               \* the node process has ended

vars == <<now, timers, activeTimers, timeouts, inflight, sessions,
          saveCalls, prompts, posts, response, requests, stopped, exited>>

Min(a, b) == IF a <= b THEN a ELSE b

Idle == [pc |-> "idle"]

NoResponse == [kind |-> "none", user |-> "none", guild |-> "none"]

\* res.send(...) answering the interaction of member u in guild g
Respond(kind, u, g) == [kind |-> kind, user |-> u, guild |-> g]

FreeSlots == {i \in 1..MaxInflight : inflight[i].pc = "idle"}

\* the handle setTimeout returns: one no pending callback and no object holds
UsedTimeoutIds ==
  {t.id : t \in timeouts} \cup {timers[o].timeoutId : o \in 1..Len(timers)}

NewTimeoutId ==
  CHOOSE i \in 1..(Cardinality(UsedTimeoutIds) + 1) :
    /\ i \notin UsedTimeoutIds
    /\ \A j \in 1..(i - 1) : j \in UsedTimeoutIds

\* clearTimeout applied to every pending handle, not to the one handle given
clearTimeout_Every(pending, id) == {}

\* clearTimeout(id): a fired, cleared or absent handle is a no-op
clearTimeout(pending, id) == {t \in pending : t.id # id}

Init ==
  /\ now = 0
  /\ timers = <<>>
  /\ activeTimers = [k \in Keys |-> NoEntry]
  /\ timeouts = {}
  /\ inflight = [i \in 1..MaxInflight |-> Idle]
  /\ sessions = <<>>
  /\ saveCalls = [o \in 1..MaxTimers |-> 0]
  /\ requests = 0
  /\ stopped = {}
  /\ prompts = [o \in 1..MaxTimers |-> 0]
  /\ posts = [o \in 1..MaxTimers |-> 0]
  /\ response = NoResponse
  /\ exited = FALSE

\* the clock; a callback that is due runs before the clock moves on
Tick ==
  /\ now + TickStep <= MaxTime
  /\ \A t \in timeouts : t.at > now
  /\ now' = now + TickStep
  /\ response' = NoResponse
  /\ UNCHANGED <<exited, timers, activeTimers, timeouts, inflight, sessions,
                 saveCalls, prompts, posts, requests, stopped>>

\* ================================================ saved-flag implementation

\* lines 712-724 without the branch for paused timers
calculateElapsedTime_FromClock(t, n) == Min(n, t.endTime) - t.startTime

calculateElapsedTime(t, n) ==
  IF t.state = PAUSED
  THEN t.duration - t.remainingTime
  ELSE Min(n, t.endTime) - t.startTime

\* sendTimerCompletionMessage(timerInfo) up to its await (lines 511-515): the
\* POST is sent, and the caller, which does not await the call, goes on
PostsAfterSend(o) == [posts EXCEPT ![o] = @ + 1]

\* the answer of the POST (lines 515-554): the prompt is delivered, or the
\* request throws and the error is swallowed.  The completionMessages map
\* written on success is never read by any handler and is not part of the
\* state.
PromptsAfterSend(o, ok) ==
  IF ok THEN [prompts EXCEPT ![o] = Min(@ + 1, MaxPrompts)] ELSE prompts

\* lines 511-554 with the entry dropped from the registry when the POST throws
PostReturns_FailureDropsEntry(o, ok) ==
  /\ posts[o] > 0
  /\ posts' = [posts EXCEPT ![o] = @ - 1]
  /\ prompts' = PromptsAfterSend(o, ok)
  /\ activeTimers' =
       IF ok
       THEN activeTimers
       ELSE [k \in Keys |-> IF activeTimers[k] = o
                            THEN NoEntry ELSE activeTimers[k]]
  /\ response' = NoResponse
  /\ UNCHANGED <<exited, now, timers, timeouts, inflight, sessions, saveCalls,
                 requests, stopped>>

\* sendTimerCompletionMessage resumes when the POST for object o is answered
\* (lines 515-554), in a later turn of the event loop than the one that sent it
PostReturns(o, ok) ==
  /\ posts[o] > 0
  /\ posts' = [posts EXCEPT ![o] = @ - 1]
  /\ prompts' = PromptsAfterSend(o, ok)
  /\ response' = NoResponse
  /\ UNCHANGED <<exited, now, timers, activeTimers, timeouts, inflight, sessions,
                 saveCalls, requests, stopped>>

\* scheduleTimerEnd(timerInfo) applied to object o of heap tm
\* line 496 with the test always taken: the prompt is sent at once
PastEnd_NoDelayTest(tm, o) == TRUE

PastEnd(tm, o) == (tm[o].endTime - now) * 1000 <= 0

\* line 501 with the start time moved to the moment the callback is armed
TimersAfterSchedule_ResetsStart(tm, o) ==
  IF PastEnd(tm, o)
  THEN tm
  ELSE [tm EXCEPT ![o].timeoutId = NewTimeoutId, ![o].startTime = now]

\* lines 484-506 with the saved flag cleared whenever the end is scheduled
TimersAfterSchedule_ClearsSaved(tm, o) ==
  IF PastEnd(tm, o)
  THEN [tm EXCEPT ![o].saved = FALSE]
  ELSE [tm EXCEPT ![o].timeoutId = NewTimeoutId, ![o].saved = FALSE]

TimersAfterSchedule(tm, o) ==
  IF PastEnd(tm, o) THEN tm ELSE [tm EXCEPT ![o].timeoutId = NewTimeoutId]

TimeoutsAfterSchedule(tm, o) ==
  LET cleared == IF tm[o].timeoutId # NoTimeout
                 THEN clearTimeout(timeouts, tm[o].timeoutId)
                 ELSE timeouts
  IN IF PastEnd(tm, o)
     THEN cleared
     ELSE cleared \cup {[id |-> NewTimeoutId, timer |-> o, at |-> tm[o].endTime]}

scheduleTimerEnd(tm, o) ==
  /\ timers' = TimersAfterSchedule(tm, o)
  /\ timeouts' = TimeoutsAfterSchedule(tm, o)
  /\ posts' = IF PastEnd(tm, o) THEN PostsAfterSend(o) ELSE posts

\* an inbound interaction is accepted while the run's budget lasts
Accept == requests < MaxRequests /\ requests' = requests + 1

\* ---- handleTimerCommand (part_001 lines 77-115)
handleTimerCommand(u, g, d) ==
  /\ Len(timers) < MaxTimers
  /\ Accept
  /\ LET o    == Len(timers) + 1
         info == [userId |-> u, guildId |-> g, duration |-> d,
                  startTime |-> now, endTime |-> now + d,
                  state |-> RUNNING, saved |-> FALSE,
                  remainingTime |-> NotSet, pausedAt |-> NotSet,
                  timeoutId |-> NoTimeout]
     IN /\ activeTimers' = [activeTimers EXCEPT ![<<u, g>>] = o]
        /\ scheduleTimerEnd(Append(timers, info), o)
  /\ response' = Respond("timer_started", u, g)
  /\ UNCHANGED <<exited, now, inflight, sessions, saveCalls, prompts, stopped>>

\* lines 501-505 with the entry marked completed once the prompt is sent
TimerFires_CompletesEntry(t) ==
  /\ t \in timeouts
  /\ t.at <= now
  /\ timeouts' = timeouts \ {t}
  /\ IF timers[t.timer].state = RUNNING
     THEN /\ posts' = PostsAfterSend(t.timer)
          /\ timers' = [timers EXCEPT ![t.timer].state = COMPLETED]
     ELSE UNCHANGED <<posts, timers>>
  /\ response' = NoResponse
  /\ UNCHANGED <<exited, now, activeTimers, inflight, sessions, saveCalls, prompts,
                 requests, stopped>>

\* lines 501-505 without the test of timerInfo.state
TimerFires_NoStateCheck(t) ==
  /\ t \in timeouts
  /\ t.at <= now
  /\ timeouts' = timeouts \ {t}
  /\ posts' = PostsAfterSend(t.timer)
  /\ response' = NoResponse
  /\ UNCHANGED <<exited, now, timers, activeTimers, inflight, sessions, saveCalls,
                 prompts, requests, stopped>>

\* the setTimeout callback armed by scheduleTimerEnd (lines 501-505): it
\* tests the state of its own object and calls sendTimerCompletionMessage
\* without awaiting it
TimerFires(t) ==
  /\ t \in timeouts
  /\ t.at <= now
  /\ timeouts' = timeouts \ {t}
  /\ posts' = IF timers[t.timer].state = RUNNING
              THEN PostsAfterSend(t.timer)
              ELSE posts
  /\ response' = NoResponse
  /\ UNCHANGED <<exited, now, timers, activeTimers, inflight, sessions, saveCalls,
                 prompts, requests, stopped>>

\* ---- handleTimerControlButton (part_001 lines 193-328)

\* lines 194-216: the lookup under the requester's key and the two checks
ControlRejected(u, g) ==
  \/ activeTimers[<<u, g>>] = NoEntry
  \/ timers[activeTimers[<<u, g>>]].userId # u

\* lines 198-216 with both checks sharing the ownership message
ControlRejection_OneMessage(u, g) == Respond("not_owner", u, g)

ControlRejection(u, g) ==
  IF activeTimers[<<u, g>>] = NoEntry
  THEN Respond("no_timer", u, g)
  ELSE Respond("not_owner", u, g)

\* the smallest free continuation slot
NewSlot == CHOOSE i \in FreeSlots : \A j \in FreeSlots : i <= j

RECURSIVE SumTo(_, _)
SumTo(f, n) == IF n = 0 THEN 0 ELSE f[n] + SumTo(f, n - 1)

\* a handler can reach its await while a continuation slot is free and the
\* run's budget of saveStudySession invocations lasts
CanInvokeSave == FreeSlots # {} /\ SumTo(saveCalls, MaxTimers) < MaxSaves

\* the continuation keeps what the handler's locals hold across the await
\* and still uses: member.user.id, guild_id, timerInfo and the elapsed time
Suspend(pc, u, g, o, elapsed) ==
  [inflight EXCEPT ![NewSlot] =
     [pc |-> pc, user |-> u, guild |-> g, timer |-> o, elapsed |-> elapsed]]

\* the row saveStudySession(member.user.id, task, elapsed, guild_id) inserts
\* for the suspended handler r, tagged with the timer and the handler: the
\* duration column holds whole minutes, Math.floor(duration / 60); elapsed
\* keeps the argument the handler passed, in seconds
Row(r, via) ==
  [timer |-> r.timer, userId |-> r.user, guildId |-> r.guild,
   elapsed |-> r.elapsed, duration |-> r.elapsed \div 60, via |-> via]

\* lines 229-232 left out: the pause keeps the callback armed
TimeoutsAfterPause_NotCancelled(t) == timeouts

\* lines 229-232: if (timerInfo.timeoutId) clearTimeout(timerInfo.timeoutId)
TimeoutsAfterPause(t) ==
  IF t.timeoutId # NoTimeout
  THEN clearTimeout(timeouts, t.timeoutId)
  ELSE timeouts

\* lines 220-233 without the test of timerInfo.state
timer_pause_AnyState(u, g, m) ==
  /\ m \in 1..Len(timers)
  /\ Accept
  /\ LET o == activeTimers[<<u, g>>]
     IN IF ControlRejected(u, g)
        THEN /\ response' = ControlRejection(u, g)
             /\ UNCHANGED <<timers, timeouts>>
        ELSE /\ timers' = [timers EXCEPT
                             ![o].remainingTime = timers[o].endTime - now,
                             ![o].pausedAt = now,
                             ![o].state = PAUSED,
                             ![o].timeoutId = NoTimeout]
             /\ timeouts' = TimeoutsAfterPause(timers[o])
             /\ response' = Respond("timer_update", u, g)
  /\ UNCHANGED <<exited, now, activeTimers, inflight, sessions, saveCalls, prompts, posts,
                 stopped>>

\* member u presses the pause button on the message of timer m
timer_pause(u, g, m) ==
  /\ m \in 1..Len(timers)
  /\ Accept
  /\ LET o == activeTimers[<<u, g>>]
     IN IF ControlRejected(u, g)
        THEN /\ response' = ControlRejection(u, g)
             /\ UNCHANGED <<timers, timeouts>>
        ELSE /\ IF timers[o].state = RUNNING
                THEN /\ timers' = [timers EXCEPT
                                     ![o].remainingTime = timers[o].endTime - now,
                                     ![o].pausedAt = now,
                                     ![o].state = PAUSED,
                                     ![o].timeoutId = NoTimeout]
                     /\ timeouts' = TimeoutsAfterPause(timers[o])
                ELSE UNCHANGED <<timers, timeouts>>
             /\ response' = Respond("timer_update", u, g)
  /\ UNCHANGED <<exited, now, activeTimers, inflight, sessions, saveCalls, prompts, posts,
                 stopped>>

\* line 240 with the end time left where the pause found it
ResumedEndTime_NotShifted(t, n) == t.pausedAt + t.remainingTime

\* line 240: timerInfo.endTime = now + timerInfo.remainingTime
ResumedEndTime(t, n) == n + t.remainingTime

\* member u presses the resume button on the message of timer m
timer_resume(u, g, m) ==
  /\ m \in 1..Len(timers)
  /\ Accept
  /\ LET o == activeTimers[<<u, g>>]
     IN IF ControlRejected(u, g)
        THEN /\ response' = ControlRejection(u, g)
             /\ UNCHANGED <<timers, timeouts, posts>>
        ELSE /\ IF timers[o].state = PAUSED
                THEN scheduleTimerEnd(
                       [timers EXCEPT
                          ![o].endTime = ResumedEndTime(timers[o], now),
                          ![o].state = RUNNING], o)
                ELSE UNCHANGED <<timers, timeouts, posts>>
             /\ response' = Respond("timer_update", u, g)
  /\ UNCHANGED <<exited, now, activeTimers, inflight, sessions, saveCalls, prompts,
                 stopped>>

\* line 258 without the saved test
StopSaves_IgnoresSaved(elapsedTime, saved) == elapsedTime >= MinSavableSeconds

\* line 258: the decision to persist on stop
StopSaves(elapsedTime, saved) == elapsedTime >= MinSavableSeconds /\ ~saved

\* member u presses the stop button on the message of timer m: timer_stop up
\* to its first await, or to its response when nothing is saved.  Every branch
\* returns before the activeTimers.delete of line 316, which never runs.
timer_stop(u, g, m) ==
  /\ m \in 1..Len(timers)
  /\ Accept
  /\ LET o == activeTimers[<<u, g>>]
     IN IF ControlRejected(u, g)
        THEN /\ response' = ControlRejection(u, g)
             /\ UNCHANGED <<timeouts, inflight, saveCalls, stopped>>
        ELSE LET elapsedTime == calculateElapsedTime(timers[o], now)
             IN /\ timeouts' = IF timers[o].timeoutId # NoTimeout
                               THEN clearTimeout(timeouts, timers[o].timeoutId)
                               ELSE timeouts
                /\ IF StopSaves(elapsedTime, timers[o].saved)
                   THEN /\ CanInvokeSave
                        /\ saveCalls' = [saveCalls EXCEPT ![o] = @ + 1]
                        /\ inflight' = Suspend("stop_await_save", u, g, o,
                                               elapsedTime)
                        /\ response' = NoResponse
                        /\ UNCHANGED stopped
                   ELSE /\ response' =
                             IF elapsedTime < MinSavableSeconds
                             THEN Respond("stopped_too_short", u, g)
                             ELSE Respond("stopped_already_saved", u, g)
                        /\ stopped' = stopped \cup {o}
                        /\ UNCHANGED <<inflight, saveCalls>>
  /\ UNCHANGED <<exited, now, timers, activeTimers, sessions, prompts, posts>>

\* lines 260-267 with `timerInfo.saved = true` moved into a finally block:
\* the flag is set whether saveStudySession returned or threw
StopSaveReturns_MarksOnFailure(i, ok) ==
  /\ inflight[i].pc = "stop_await_save"
  /\ LET r == inflight[i]
     IN /\ timers' = [timers EXCEPT ![r.timer].saved = TRUE]
        /\ IF ok
           THEN /\ sessions' = Append(sessions, Row(r, "timer_stop"))
                /\ inflight' = [inflight EXCEPT ![i].pc = "stop_await_stats"]
                /\ response' = NoResponse
                /\ UNCHANGED stopped
           ELSE /\ response' = Respond("stopped_save_error", r.user, r.guild)
                /\ inflight' = [inflight EXCEPT ![i] = Idle]
                /\ stopped' = stopped \cup {r.timer}
                /\ UNCHANGED sessions
  /\ UNCHANGED <<exited, now, activeTimers, timeouts, saveCalls, prompts, posts, requests>>

\* saveStudySession returns or throws (lines 260-267, 282-293)
StopSaveReturns(i, ok) ==
  /\ inflight[i].pc = "stop_await_save"
  /\ LET r == inflight[i]
     IN IF ok
        THEN /\ sessions' = Append(sessions, Row(r, "timer_stop"))
             /\ timers' = [timers EXCEPT ![r.timer].saved = TRUE]
             /\ inflight' = [inflight EXCEPT ![i].pc = "stop_await_stats"]
             /\ response' = NoResponse
             /\ UNCHANGED stopped
        ELSE /\ response' = Respond("stopped_save_error", r.user, r.guild)
             /\ inflight' = [inflight EXCEPT ![i] = Idle]
             /\ stopped' = stopped \cup {r.timer}
             /\ UNCHANGED <<sessions, timers>>
  /\ UNCHANGED <<exited, now, activeTimers, timeouts, saveCalls, prompts, posts, requests>>

\* getUserStats returns or throws (lines 268-293)
StopStatsReturns(i, ok) ==
  /\ inflight[i].pc = "stop_await_stats"
  /\ LET r == inflight[i]
     IN /\ response' = IF ok
                       THEN Respond("stopped_saved", r.user, r.guild)
                       ELSE Respond("stopped_save_error", r.user, r.guild)
        /\ inflight' = [inflight EXCEPT ![i] = Idle]
        /\ stopped' = stopped \cup {r.timer}
  /\ UNCHANGED <<exited, now, timers, activeTimers, timeouts, sessions, saveCalls,
                 prompts, posts, requests>>

\* ---- handleTaskCompletionButton (part_001 lines 333-443)

\* lines 334-382: the lookup and the four checks before the save
CompletionRejected(u, g) ==
  \/ activeTimers[<<u, g>>] = NoEntry
  \/ timers[activeTimers[<<u, g>>]].userId # u
  \/ timers[activeTimers[<<u, g>>]].saved
  \/ calculateElapsedTime(timers[activeTimers[<<u, g>>]], now) < MinSavableSeconds

CompletionRejection(u, g) ==
  IF activeTimers[<<u, g>>] = NoEntry
  THEN Respond("no_session", u, g)
  ELSE IF timers[activeTimers[<<u, g>>]].userId # u
  THEN Respond("not_owner", u, g)
  ELSE IF timers[activeTimers[<<u, g>>]].saved
  THEN Respond("already_saved", u, g)
  ELSE Respond("too_short", u, g)

\* member u presses task_complete / task_incomplete on the prompt of timer m:
\* the handler up to its first await
handleTaskCompletionButton(u, g, c, m) ==
  /\ m \in 1..Len(timers)
  /\ c \in {"task_complete", "task_incomplete"}
  /\ Accept
  /\ LET o == activeTimers[<<u, g>>]
     IN IF CompletionRejected(u, g)
        THEN /\ response' = CompletionRejection(u, g)
             /\ UNCHANGED <<inflight, saveCalls>>
        ELSE /\ CanInvokeSave
             /\ saveCalls' = [saveCalls EXCEPT ![o] = @ + 1]
             /\ inflight' = Suspend("completion_await_save", u, g, o,
                                    calculateElapsedTime(timers[o], now))
             /\ response' = NoResponse
  /\ UNCHANGED <<exited, now, timers, activeTimers, timeouts, sessions, prompts, posts,
                 stopped>>

\* lines 386-395 with the two assignments made before the save is awaited
CompletionSaveReturns_MarksBeforeSave(i, ok) ==
  /\ inflight[i].pc = "completion_await_save"
  /\ LET r == inflight[i]
     IN /\ timers' = [timers EXCEPT ![r.timer].saved = TRUE,
                                    ![r.timer].state = COMPLETED]
        /\ IF ok
           THEN /\ sessions' = Append(sessions, Row(r, "completion"))
                /\ inflight' = [inflight EXCEPT ![i].pc = "completion_await_stats"]
                /\ response' = NoResponse
           ELSE /\ response' = Respond("completion_error", r.user, r.guild)
                /\ inflight' = [inflight EXCEPT ![i] = Idle]
                /\ UNCHANGED sessions
  /\ UNCHANGED <<exited, now, activeTimers, timeouts, saveCalls, prompts, posts, requests,
                 stopped>>

\* saveStudySession returns or throws (lines 386-395, 433-442)
CompletionSaveReturns(i, ok) ==
  /\ inflight[i].pc = "completion_await_save"
  /\ LET r == inflight[i]
     IN IF ok
        THEN /\ sessions' = Append(sessions, Row(r, "completion"))
             /\ timers' = [timers EXCEPT ![r.timer].saved = TRUE,
                                         ![r.timer].state = COMPLETED]
             /\ inflight' = [inflight EXCEPT ![i].pc = "completion_await_stats"]
             /\ response' = NoResponse
        ELSE /\ response' = Respond("completion_error", r.user, r.guild)
             /\ inflight' = [inflight EXCEPT ![i] = Idle]
             /\ UNCHANGED <<sessions, timers>>
  /\ UNCHANGED <<exited, now, activeTimers, timeouts, saveCalls, prompts, posts, requests,
                 stopped>>

\* getUserStats returns, and the handler goes on to await
\* updateOriginalMessage; or it throws, and the catch answers (lines 398-411,
\* 436-442)
CompletionStatsReturns(i, ok) ==
  /\ inflight[i].pc = "completion_await_stats"
  /\ LET r == inflight[i]
     IN IF ok
        THEN /\ response' = NoResponse
             /\ inflight' = [inflight EXCEPT ![i].pc = "completion_await_patch"]
        ELSE /\ response' = Respond("completion_error", r.user, r.guild)
             /\ inflight' = [inflight EXCEPT ![i] = Idle]
  /\ UNCHANGED <<exited, now, timers, activeTimers, timeouts, sessions, saveCalls,
                 prompts, posts, requests, stopped>>

\* the PATCH of updateOriginalMessage is answered: the function catches its
\* own errors and returns true or false, which the handler does not read,
\* and the handler answers with the stats (lines 411-435, 448-463)
CompletionPatchReturns(i, ok) ==
  /\ inflight[i].pc = "completion_await_patch"
  /\ response' = Respond("completion_saved", inflight[i].user, inflight[i].guild)
  /\ inflight' = [inflight EXCEPT ![i] = Idle]
  /\ UNCHANGED <<exited, now, timers, activeTimers, timeouts, sessions, saveCalls,
                 prompts, posts, requests, stopped>>

\* ---- the saved-flag implementation as a whole

AllIdle == \A i \in 1..MaxInflight : inflight[i].pc = "idle"

Start    == \E u \in Users, g \in Guilds, d \in Durations :
              handleTimerCommand(u, g, d)
Fire     == \E t \in timeouts : TimerFires(t)
Post     == \E o \in 1..MaxTimers, ok \in BOOLEAN : PostReturns(o, ok)
Pause    == \E u \in Users, g \in Guilds, m \in 1..MaxTimers : timer_pause(u, g, m)
Resume   == \E u \in Users, g \in Guilds, m \in 1..MaxTimers :
              timer_resume(u, g, m)
Stop     == \E u \in Users, g \in Guilds, m \in 1..MaxTimers : timer_stop(u, g, m)
Complete == \E u \in Users, g \in Guilds, m \in 1..MaxTimers,
               c \in {"task_complete", "task_incomplete"} :
              handleTaskCompletionButton(u, g, c, m)
StopContinues ==
  \E i \in 1..MaxInflight, ok \in BOOLEAN :
     StopSaveReturns(i, ok) \/ StopStatsReturns(i, ok)
CompletionContinues ==
  \E i \in 1..MaxInflight, ok \in BOOLEAN :
     \/ CompletionSaveReturns(i, ok)
     \/ CompletionStatsReturns(i, ok)
     \/ CompletionPatchReturns(i, ok)

Next ==
  \/ Tick \/ Fire \/ Post \/ StopContinues \/ CompletionContinues
  \/ Start \/ Pause \/ Resume \/ Stop \/ Complete

Spec == Init /\ [][Next]_vars

\* the same handlers when each request is handled to its response before the
\* next one arrives
NextSeq ==
  \/ Tick \/ Fire \/ Post \/ StopContinues \/ CompletionContinues
  \/ (AllIdle /\ (Start \/ Pause \/ Resume \/ Stop \/ Complete))

SpecSeq == Init /\ [][NextSeq]_vars

\* ---- the handlers under a scheduler that lets time pass and runs every
\* callback that is due

\* the last value the bounded clock takes
LastTick == (MaxTime \div TickStep) * TickStep

\* a /timer whose end the clock can reach
StartWithinClock ==
  \E u \in Users, g \in Guilds, d \in Durations :
     /\ now + d <= LastTick
     /\ handleTimerCommand(u, g, d)

NextLive ==
  \/ Tick \/ Fire \/ Post \/ StopContinues \/ CompletionContinues
  \/ (AllIdle /\ (StartWithinClock \/ Pause \/ Resume \/ Stop \/ Complete))

\* time passes, the event loop runs a callback once it is due, and a POST
\* that was sent is answered or fails
SpecLive ==
  Init /\ [][NextLive]_vars /\ WF_vars(Tick) /\ WF_vars(Fire) /\ WF_vars(Post)

\* ---- the other branches of the /interactions route (part_001 lines 29-72)

\* /stats up to its await of Promise.all([getUserStats, getUserHeatmapData])
handleStatsCommand(u, g) ==
  /\ Accept
  /\ FreeSlots # {}
  /\ inflight' = Suspend("stats_await", u, g, NoEntry, 0)
  /\ response' = NoResponse
  /\ UNCHANGED <<exited, now, timers, activeTimers, timeouts, sessions, saveCalls,
                 prompts, posts, stopped>>

\* lines 137-148 with the rejection of the awaited queries left uncaught
StatsReturns_ThrowEscapes(i, ok) ==
  /\ inflight[i].pc = "stats_await"
  /\ response' = IF ok
                 THEN Respond("stats", inflight[i].user, inflight[i].guild)
                 ELSE NoResponse
  /\ inflight' = [inflight EXCEPT ![i] = Idle]
  /\ UNCHANGED <<exited, now, timers, activeTimers, timeouts, sessions, saveCalls,
                 prompts, posts, requests, stopped>>

\* the two queries return, or one of them throws (lines 121-148)
StatsReturns(i, ok) ==
  /\ inflight[i].pc = "stats_await"
  /\ response' = IF ok
                 THEN Respond("stats", inflight[i].user, inflight[i].guild)
                 ELSE Respond("stats_error", inflight[i].user, inflight[i].guild)
  /\ inflight' = [inflight EXCEPT ![i] = Idle]
  /\ UNCHANGED <<exited, now, timers, activeTimers, timeouts, sessions, saveCalls,
                 prompts, posts, requests, stopped>>

\* /leaderboard up to its await of getGuildStats
handleLeaderboardCommand(u, g) ==
  /\ Accept
  /\ FreeSlots # {}
  /\ inflight' = Suspend("leaderboard_await", u, g, NoEntry, 0)
  /\ response' = NoResponse
  /\ UNCHANGED <<exited, now, timers, activeTimers, timeouts, sessions, saveCalls,
                 prompts, posts, stopped>>

\* getGuildStats returns the guild's rows, or throws (lines 156-185)
LeaderboardReturns(i, ok) ==
  /\ inflight[i].pc = "leaderboard_await"
  /\ LET r == inflight[i]
         rows == {j \in 1..Len(sessions) : sessions[j].guildId = r.guild}
     IN response' = IF ~ok THEN Respond("leaderboard_error", r.user, r.guild)
                    ELSE IF rows = {}
                    THEN Respond("leaderboard_empty", r.user, r.guild)
                    ELSE Respond("leaderboard", r.user, r.guild)
  /\ inflight' = [inflight EXCEPT ![i] = Idle]
  /\ UNCHANGED <<exited, now, timers, activeTimers, timeouts, sessions, saveCalls,
                 prompts, posts, requests, stopped>>

\* an unknown command, or an interaction no branch takes: status 400
\* (lines 49-51, 70-71)
UnknownInteraction(u, g) ==
  /\ Accept
  /\ response' = Respond("unknown", u, g)
  /\ UNCHANGED <<exited, now, timers, activeTimers, timeouts, inflight, sessions,
                 saveCalls, prompts, posts, stopped>>

\* a PING is answered with a PONG (lines 33-35)
PingInteraction(u, g) ==
  /\ Accept
  /\ response' = Respond("pong", u, g)
  /\ UNCHANGED <<exited, now, timers, activeTimers, timeouts, inflight, sessions,
                 saveCalls, prompts, posts, stopped>>

Ping        == \E u \in Users, g \in Guilds : PingInteraction(u, g)
Stats       == \E u \in Users, g \in Guilds : handleStatsCommand(u, g)
Leaderboard == \E u \in Users, g \in Guilds : handleLeaderboardCommand(u, g)
Unknown     == \E u \in Users, g \in Guilds : UnknownInteraction(u, g)
QueryContinues ==
  \E i \in 1..MaxInflight, ok \in BOOLEAN :
     StatsReturns(i, ok) \/ LeaderboardReturns(i, ok)

\* a button pressed on the message of the first timer: the handlers never
\* read which message the button sits on
Button ==
  \E u \in Users, g \in Guilds :
     \/ timer_pause(u, g, 1)
     \/ timer_resume(u, g, 1)
     \/ timer_stop(u, g, 1)
     \/ \E c \in {"task_complete", "task_incomplete"} :
          handleTaskCompletionButton(u, g, c, 1)

\* the whole route, each request handled to its response before the next
\* one arrives
NextRoute ==
  \/ Tick \/ Fire \/ Post \/ StopContinues \/ CompletionContinues \/ QueryContinues
  \/ (AllIdle /\ (Ping \/ Start \/ Button \/ Stats \/ Leaderboard \/ Unknown))

SpecRoute == Init /\ [][NextRoute]_vars

\* ---- parseTimerInput (part_001 lines 618-659)
\* Strings are sequences of one-character strings.

InputChars == {"0", "1", "2", "m", "s", " ", "a"}
Inputs == UNION {[1..n -> InputChars] : n \in 0..MaxInputLen}

IsDigit(c) == c \in {"0", "1", "2", "3", "4", "5", "6", "7", "8", "9"}
IsSpace(c) == c \in {" "}

DigitValue(c) ==
  CASE c = "0" -> 0 [] c = "1" -> 1 [] c = "2" -> 2 [] c = "3" -> 3
    [] c = "4" -> 4 [] c = "5" -> 5 [] c = "6" -> 6 [] c = "7" -> 7
    [] c = "8" -> 8 [] c = "9" -> 9

toLowerCase(c) ==
  CASE c = "H" -> "h" [] c = "M" -> "m" [] c = "S" -> "s" [] OTHER -> c

\* parseInt of a string of digits
RECURSIVE parseInt(_)
parseInt(str) ==
  IF str = <<>> THEN 0
  ELSE parseInt(SubSeq(str, 1, Len(str) - 1)) * 10 + DigitValue(str[Len(str)])

\* String.prototype.trim
trim(str) ==
  IF \A i \in 1..Len(str) : IsSpace(str[i]) THEN <<>>
  ELSE LET first == CHOOSE i \in 1..Len(str) :
                      ~IsSpace(str[i]) /\ \A j \in 1..(i - 1) : IsSpace(str[j])
           last  == CHOOSE i \in 1..Len(str) :
                      ~IsSpace(str[i]) /\ \A j \in (i + 1)..Len(str) : IsSpace(str[j])
       IN SubSeq(str, first, last)

\* durationRegex = /^(\d+)\s*([hms])/i: the length of group 1, the length of
\* the whole match, 0 when the input does not match
DigitRun(str) ==
  CHOOSE k \in 0..Len(str) :
    /\ \A i \in 1..k : IsDigit(str[i])
    /\ k = Len(str) \/ ~IsDigit(str[k + 1])

MatchLength(str) ==
  LET k == DigitRun(str)
      j == CHOOSE j \in k..Len(str) :
             /\ \A i \in (k + 1)..j : IsSpace(str[i])
             /\ j = Len(str) \/ ~IsSpace(str[j + 1])
  IN IF k >= 1 /\ j < Len(str) /\ toLowerCase(str[j + 1]) \in {"h", "m", "s"}
     THEN j + 1
     ELSE 0

\* `${username}'s study session`
DefaultTask(username) == <<username, "'s study session">>

\* the switch of lines 634-644 with the minutes taken as seconds
UnitSeconds_MinutesAsSeconds(unit) ==
  CASE unit = "h" -> 3600 [] unit = "m" -> 1 [] unit = "s" -> 1

\* the switch of lines 634-644: seconds per unit
UnitSeconds(unit) ==
  CASE unit = "h" -> 3600 [] unit = "m" -> 60 [] unit = "s" -> 1

parseTimerInput(input, username) ==
  IF input = <<>>
  THEN [duration |-> 25 * 60, task |-> DefaultTask(username)]
  ELSE LET n == MatchLength(input)
       IN IF n > 0
          THEN LET value == parseInt(SubSeq(input, 1, DigitRun(input)))
                   unit  == toLowerCase(input[n])
                   task  == trim(SubSeq(input, n + 1, Len(input)))
               IN [duration |-> value * UnitSeconds(unit),
                   task |-> IF task = <<>> THEN DefaultTask(username) ELSE task]
          ELSE [duration |-> 25 * 60,
                task |-> IF trim(input) = <<>>
                         THEN DefaultTask(username)
                         ELSE trim(input)]

\* handleTimerCommand with the text of the command: the entry keeps the
\* parsed duration and task, and the text it was parsed from (history)
handleTimerCommandInput(u, g, input) ==
  /\ timers = <<>>
  /\ Accept
  /\ LET parsed == parseTimerInput(input, u)
         info   == [userId |-> u, guildId |-> g,
                    input |-> input, task |-> parsed.task,
                    duration |-> parsed.duration,
                    startTime |-> now, endTime |-> now + parsed.duration,
                    state |-> RUNNING, saved |-> FALSE,
                    remainingTime |-> NotSet, pausedAt |-> NotSet,
                    timeoutId |-> NoTimeout]
     IN /\ activeTimers' = [activeTimers EXCEPT ![<<u, g>>] = 1]
        /\ scheduleTimerEnd(<<info>>, 1)
  /\ response' = Respond("timer_started", u, g)
  /\ UNCHANGED <<exited, now, inflight, sessions, saveCalls, prompts, stopped>>

StartInput ==
  /\ timers = <<>>
  /\ \E u \in Users, g \in Guilds, input \in Inputs :
       handleTimerCommandInput(u, g, input)

\* the command with its text, and the answer of the POST a duration of 0
\* sends at once
NextParse == StartInput \/ Post

SpecParse == Init /\ [][NextParse]_vars

\* ======================================================= src/app.js

AppNow == now * 1000              \* Date.now(), milliseconds

AppTick ==
  /\ now + TickStep <= MaxTime
  /\ \A t \in timeouts : t.at > AppNow
  /\ now' = now + TickStep
  /\ response' = NoResponse
  /\ UNCHANGED <<exited, timers, activeTimers, timeouts, inflight, sessions,
                 saveCalls, prompts, posts, requests, stopped>>

\* scheduleTimerEnd(token, timerInfo), app.js lines 325-363: always arms a
\* new callback and does not clear the handle the object holds
AppScheduleTimerEnd(tm, o) ==
  /\ timers' = [tm EXCEPT ![o].timeoutId = NewTimeoutId]
  /\ timeouts' = timeouts \cup
       {[id |-> NewTimeoutId, timer |-> o, at |-> tm[o].endTime]}

\* the callback up to its await: it returns unless the entry is running,
\* else sends the POST (lines 328-334); the answer of the POST, a delivery
\* or a swallowed error (lines 334-361), is PostReturns
AppTimerFires(t) ==
  /\ t \in timeouts
  /\ t.at <= AppNow
  /\ timeouts' = timeouts \ {t}
  /\ posts' = IF timers[t.timer].state = RUNNING
              THEN PostsAfterSend(t.timer)
              ELSE posts
  /\ response' = NoResponse
  /\ UNCHANGED <<exited, now, timers, activeTimers, inflight, sessions, saveCalls,
                 prompts, requests, stopped>>

\* the /timer command (lines 174-213)
AppTimerCommand(u, g, d) ==
  /\ Len(timers) < MaxTimers
  /\ Accept
  /\ LET o    == Len(timers) + 1
         info == [userId |-> u, guildId |-> g, duration |-> d,
                  startTime |-> AppNow, endTime |-> AppNow + d * 1000,
                  state |-> RUNNING,
                  remainingTime |-> NotSet, pausedAt |-> NotSet,
                  timeoutId |-> NoTimeout]
     IN /\ activeTimers' = [activeTimers EXCEPT ![<<u, g>>] = o]
        /\ AppScheduleTimerEnd(Append(timers, info), o)
  /\ response' = Respond("timer_started", u, g)
  /\ UNCHANGED <<exited, now, inflight, sessions, saveCalls, prompts, posts, stopped>>

\* line 42: !timerInfo || timerInfo.userId !== member.user.id
AppControlRejected(u, g) ==
  \/ activeTimers[<<u, g>>] = NoEntry
  \/ timers[activeTimers[<<u, g>>]].userId # u

\* timer_pause (lines 53-60, 121-127)
AppTimerPause(u, g, m) ==
  /\ m \in 1..Len(timers)
  /\ Accept
  /\ LET o == activeTimers[<<u, g>>]
     IN IF AppControlRejected(u, g)
        THEN /\ response' = Respond("not_owner", u, g)
             /\ UNCHANGED <<timers, timeouts>>
        ELSE /\ IF timers[o].state = RUNNING
                THEN /\ timers' = [timers EXCEPT
                                     ![o].state = PAUSED,
                                     ![o].pausedAt = AppNow,
                                     ![o].remainingTime = timers[o].endTime - AppNow]
                     /\ timeouts' = clearTimeout(timeouts, timers[o].timeoutId)
                ELSE UNCHANGED <<timers, timeouts>>
             /\ response' = Respond("timer_update", u, g)
  /\ UNCHANGED <<exited, now, activeTimers, inflight, sessions, saveCalls, prompts, posts,
                 stopped>>

\* timer_resume (lines 62-68, 121-127)
AppTimerResume(u, g, m) ==
  /\ m \in 1..Len(timers)
  /\ Accept
  /\ LET o == activeTimers[<<u, g>>]
     IN IF AppControlRejected(u, g)
        THEN /\ response' = Respond("not_owner", u, g)
             /\ UNCHANGED <<timers, timeouts>>
        ELSE /\ IF timers[o].state = PAUSED
                THEN AppScheduleTimerEnd(
                       [timers EXCEPT
                          ![o].state = RUNNING,
                          ![o].endTime = AppNow + timers[o].remainingTime], o)
                ELSE UNCHANGED <<timers, timeouts>>
             /\ response' = Respond("timer_update", u, g)
  /\ UNCHANGED <<exited, now, activeTimers, inflight, sessions, saveCalls, prompts, posts,
                 stopped>>

\* the row this variant's saveStudySession inserts: the duration column
\* holds the argument as passed
AppRow(r, via) ==
  [timer |-> r.timer, userId |-> r.user, guildId |-> r.guild,
   elapsed |-> r.elapsed, duration |-> r.elapsed, via |-> via]

\* delete activeTimers[timerId]
AppDelete(k) == [activeTimers EXCEPT ![k] = NoEntry]

\* timer_stop up to its first await, or to its response when the session is
\* too short (lines 70-86, 108-117)
AppTimerStop(u, g, m) ==
  /\ m \in 1..Len(timers)
  /\ Accept
  /\ LET o == activeTimers[<<u, g>>]
     IN IF AppControlRejected(u, g)
        THEN /\ response' = Respond("not_owner", u, g)
             /\ UNCHANGED <<timers, activeTimers, timeouts, inflight,
                            saveCalls, stopped>>
        ELSE LET elapsedTime == (AppNow - timers[o].startTime) \div 1000
             IN /\ timers' = [timers EXCEPT ![o].state = STOPPED]
                /\ timeouts' = clearTimeout(timeouts, timers[o].timeoutId)
                /\ IF elapsedTime >= AppMinSavableSeconds
                   THEN /\ CanInvokeSave
                        /\ saveCalls' = [saveCalls EXCEPT ![o] = @ + 1]
                        /\ inflight' = Suspend("app_stop_await_save", u, g, o,
                                               elapsedTime)
                        /\ response' = NoResponse
                        /\ UNCHANGED <<activeTimers, stopped>>
                   ELSE /\ activeTimers' = AppDelete(<<u, g>>)
                        /\ response' = Respond("stopped_too_short", u, g)
                        /\ stopped' = stopped \cup {o}
                        /\ UNCHANGED <<inflight, saveCalls>>
  /\ UNCHANGED <<exited, now, sessions, prompts, posts>>

\* saveStudySession returns or throws (lines 80-87, 97-106)
AppStopSaveReturns(i, ok) ==
  /\ inflight[i].pc = "app_stop_await_save"
  /\ LET r == inflight[i]
     IN IF ok
        THEN /\ sessions' = Append(sessions, AppRow(r, "timer_stop"))
             /\ inflight' = [inflight EXCEPT ![i].pc = "app_stop_await_stats"]
             /\ response' = NoResponse
             /\ UNCHANGED <<activeTimers, stopped>>
        ELSE /\ activeTimers' = AppDelete(<<r.user, r.guild>>)
             /\ response' = Respond("stopped_save_error", r.user, r.guild)
             /\ inflight' = [inflight EXCEPT ![i] = Idle]
             /\ stopped' = stopped \cup {r.timer}
             /\ UNCHANGED sessions
  /\ UNCHANGED <<exited, now, timers, timeouts, saveCalls, prompts, posts, requests>>

\* getUserStats returns or throws (lines 87-106)
AppStopStatsReturns(i, ok) ==
  /\ inflight[i].pc = "app_stop_await_stats"
  /\ LET r == inflight[i]
     IN /\ activeTimers' = AppDelete(<<r.user, r.guild>>)
        /\ response' = IF ok
                       THEN Respond("stopped_saved", r.user, r.guild)
                       ELSE Respond("stopped_save_error", r.user, r.guild)
        /\ inflight' = [inflight EXCEPT ![i] = Idle]
        /\ stopped' = stopped \cup {r.timer}
  /\ UNCHANGED <<exited, now, timers, timeouts, sessions, saveCalls, prompts, posts,
                 requests>>

\* line 130: componentId === 'task_complete' && timerInfo
AppCompletionSaves(o) == o # NoEntry

\* task_complete up to its first await; without an entry the request falls
\* through to the 400 of line 268 (lines 130-137, 267-268)
AppTaskComplete(u, g, m) ==
  /\ m \in 1..Len(timers)
  /\ Accept
  /\ LET o == activeTimers[<<u, g>>]
     IN IF AppCompletionSaves(o)
        THEN /\ CanInvokeSave
             /\ saveCalls' = [saveCalls EXCEPT ![o] = @ + 1]
             /\ inflight' = Suspend("app_complete_await_save", u, g, o,
                                    timers[o].duration)
             /\ response' = NoResponse
        ELSE /\ response' = Respond("unknown_interaction", u, g)
             /\ UNCHANGED <<inflight, saveCalls>>
  /\ UNCHANGED <<exited, now, timers, activeTimers, timeouts, sessions, prompts, posts,
                 stopped>>

\* saveStudySession returns or throws (lines 132-139, 148-157)
AppCompleteSaveReturns(i, ok) ==
  /\ inflight[i].pc = "app_complete_await_save"
  /\ LET r == inflight[i]
     IN IF ok
        THEN /\ sessions' = Append(sessions, AppRow(r, "task_complete"))
             /\ inflight' = [inflight EXCEPT ![i].pc = "app_complete_await_stats"]
             /\ response' = NoResponse
        ELSE /\ response' = Respond("complete_save_error", r.user, r.guild)
             /\ inflight' = [inflight EXCEPT ![i] = Idle]
             /\ UNCHANGED sessions
  /\ UNCHANGED <<exited, now, timers, activeTimers, timeouts, saveCalls, prompts, posts,
                 requests, stopped>>

\* getUserStats returns or throws (lines 139-157)
AppCompleteStatsReturns(i, ok) ==
  /\ inflight[i].pc = "app_complete_await_stats"
  /\ LET r == inflight[i]
     IN /\ response' = IF ok
                       THEN Respond("complete_saved", r.user, r.guild)
                       ELSE Respond("complete_save_error", r.user, r.guild)
        /\ inflight' = [inflight EXCEPT ![i] = Idle]
  /\ UNCHANGED <<exited, now, timers, activeTimers, timeouts, sessions, saveCalls,
                 prompts, posts, requests, stopped>>

\* task_incomplete (lines 160-168)
AppTaskIncomplete(u, g, m) ==
  /\ m \in 1..Len(timers)
  /\ Accept
  /\ response' = Respond("incomplete_ack", u, g)
  /\ UNCHANGED <<exited, now, timers, activeTimers, timeouts, inflight, sessions,
                 saveCalls, prompts, posts, stopped>>

\* a PING is answered with a PONG (lines 30-32)
AppPing(u, g) ==
  /\ Accept
  /\ response' = Respond("pong", u, g)
  /\ UNCHANGED <<exited, now, timers, activeTimers, timeouts, inflight, sessions,
                 saveCalls, prompts, posts, stopped>>

\* /stats up to its await of getUserStats (lines 217-219)
AppStatsCommand(u, g) ==
  /\ Accept
  /\ FreeSlots # {}
  /\ inflight' = Suspend("stats_await", u, g, NoEntry, 0)
  /\ response' = NoResponse
  /\ UNCHANGED <<exited, now, timers, activeTimers, timeouts, sessions, saveCalls,
                 prompts, posts, stopped>>

\* getUserStats returns or throws (lines 219-236)
AppStatsReturns(i, ok) ==
  /\ inflight[i].pc = "stats_await"
  /\ response' = IF ok
                 THEN Respond("stats", inflight[i].user, inflight[i].guild)
                 ELSE Respond("stats_error", inflight[i].user, inflight[i].guild)
  /\ inflight' = [inflight EXCEPT ![i] = Idle]
  /\ UNCHANGED <<exited, now, timers, activeTimers, timeouts, sessions, saveCalls,
                 prompts, posts, requests, stopped>>

\* /leaderboard up to its await of getGuildStats (lines 239-241)
AppLeaderboardCommand(u, g) ==
  /\ Accept
  /\ FreeSlots # {}
  /\ inflight' = Suspend("leaderboard_await", u, g, NoEntry, 0)
  /\ response' = NoResponse
  /\ UNCHANGED <<exited, now, timers, activeTimers, timeouts, sessions, saveCalls,
                 prompts, posts, stopped>>

\* getGuildStats returns, and the rows, if any, are listed, or it throws
\* (lines 241-261)
AppLeaderboardReturns(i, ok) ==
  /\ inflight[i].pc = "leaderboard_await"
  /\ response' = IF ok
                 THEN Respond("leaderboard", inflight[i].user, inflight[i].guild)
                 ELSE Respond("leaderboard_error", inflight[i].user,
                              inflight[i].guild)
  /\ inflight' = [inflight EXCEPT ![i] = Idle]
  /\ UNCHANGED <<exited, now, timers, activeTimers, timeouts, sessions, saveCalls,
                 prompts, posts, requests, stopped>>

\* a command that is not timer, stats or leaderboard: status 400
\* (lines 264-265)
AppUnknownCommand(u, g) ==
  /\ Accept
  /\ response' = Respond("unknown_command", u, g)
  /\ UNCHANGED <<exited, now, timers, activeTimers, timeouts, inflight, sessions,
                 saveCalls, prompts, posts, stopped>>

\* an interaction of another type, or a component whose id is neither
\* timer_... nor task_complete nor task_incomplete: status 400
\* (lines 267-268)
AppUnknownInteraction(u, g) ==
  /\ Accept
  /\ response' = Respond("unknown_interaction", u, g)
  /\ UNCHANGED <<exited, now, timers, activeTimers, timeouts, inflight, sessions,
                 saveCalls, prompts, posts, stopped>>

AppStart      == \E u \in Users, g \in Guilds, d \in Durations :
                   AppTimerCommand(u, g, d)
AppFire       == \E t \in timeouts : AppTimerFires(t)
AppPause      == \E u \in Users, g \in Guilds, m \in 1..MaxTimers :
                   AppTimerPause(u, g, m)
AppResume     == \E u \in Users, g \in Guilds, m \in 1..MaxTimers :
                   AppTimerResume(u, g, m)
AppStop       == \E u \in Users, g \in Guilds, m \in 1..MaxTimers :
                   AppTimerStop(u, g, m)
AppComplete   == \E u \in Users, g \in Guilds, m \in 1..MaxTimers :
                   AppTaskComplete(u, g, m)
AppIncomplete == \E u \in Users, g \in Guilds, m \in 1..MaxTimers :
                   AppTaskIncomplete(u, g, m)
AppStopContinues ==
  \E i \in 1..MaxInflight, ok \in BOOLEAN :
     AppStopSaveReturns(i, ok) \/ AppStopStatsReturns(i, ok)
AppCompleteContinues ==
  \E i \in 1..MaxInflight, ok \in BOOLEAN :
     AppCompleteSaveReturns(i, ok) \/ AppCompleteStatsReturns(i, ok)
AppPong        == \E u \in Users, g \in Guilds : AppPing(u, g)
AppStats       == \E u \in Users, g \in Guilds : AppStatsCommand(u, g)
AppLeaderboard == \E u \in Users, g \in Guilds : AppLeaderboardCommand(u, g)
AppUnknown     == \E u \in Users, g \in Guilds :
                    AppUnknownCommand(u, g) \/ AppUnknownInteraction(u, g)
AppQueryContinues ==
  \E i \in 1..MaxInflight, ok \in BOOLEAN :
     AppStatsReturns(i, ok) \/ AppLeaderboardReturns(i, ok)

\* the whole route of app.js (lines 27-269) and the callback
AppNext ==
  \/ AppTick \/ AppFire \/ Post \/ AppStopContinues \/ AppCompleteContinues
  \/ AppQueryContinues
  \/ AppStart \/ AppPause \/ AppResume \/ AppStop \/ AppComplete
  \/ AppIncomplete
  \/ AppPong \/ AppStats \/ AppLeaderboard \/ AppUnknown

SpecApp == Init /\ [][AppNext]_vars

\* app.js when each request is handled to its response before the next one
AppNextSeq ==
  \/ AppTick \/ AppFire \/ Post \/ AppStopContinues \/ AppCompleteContinues
  \/ AppQueryContinues
  \/ (AllIdle /\ (AppStart \/ AppPause \/ AppResume \/ AppStop
                    \/ AppComplete \/ AppIncomplete
                    \/ AppPong \/ AppStats \/ AppLeaderboard \/ AppUnknown))

SpecAppSeq == Init /\ [][AppNextSeq]_vars

\* ============================================== src/unnamed/part_000
\* The variant whose notifier removes the registry entry when the delivery
\* of the prompt fails. Date.now() is in milliseconds, as in src/app.js.
\* Its route (lines 27-306) has the code of src/app.js for PING, timer_pause,
\* timer_stop, task_complete, /leaderboard and the two status 400 answers,
\* and awaits one promise in /stats: these branches are the App actions.
\* Its timer_resume, task_incomplete, /timer and callback differ.

P0Durations == {30, 600}         \* seconds, as returned by parseTimerInput

P0MinIncompleteSeconds == 600    \* line 170: elapsedTime >= 600

\* scheduleTimerEnd(timerInfo), lines 362-365 and 405: arms a callback for
\* endTime - Date.now() and stores its handle; no handle is cleared
P0ScheduleTimerEnd(tm, o) ==
  /\ timers' = [tm EXCEPT ![o].timeoutId = NewTimeoutId]
  /\ timeouts' = timeouts \cup
       {[id |-> NewTimeoutId, timer |-> o, at |-> tm[o].endTime]}

\* createTimerInfo(userId, task, duration, guildId, token), lines 513-523
P0CreateTimerInfo(u, g, d) ==
  [userId |-> u, guildId |-> g, duration |-> d,
   startTime |-> AppNow, endTime |-> AppNow + d * 1000,
   state |-> RUNNING,
   remainingTime |-> NotSet, pausedAt |-> NotSet,
   timeoutId |-> NoTimeout]

\* the /timer command (lines 211-241): the new object replaces whatever the
\* key held, and the callback of a replaced object stays armed
P0TimerCommand(u, g, d) ==
  /\ Len(timers) < MaxTimers
  /\ Accept
  /\ LET o == Len(timers) + 1
     IN /\ activeTimers' = [activeTimers EXCEPT ![<<u, g>>] = o]
        /\ P0ScheduleTimerEnd(Append(timers, P0CreateTimerInfo(u, g, d)), o)
  /\ response' = Respond("timer_started", u, g)
  /\ UNCHANGED <<exited, now, inflight, sessions, saveCalls, prompts, posts, stopped>>

\* the callback up to its await (lines 365-373): it returns unless its own
\* object is running, else computes the key from the object and sends the
\* POST
P0TimerFires(t) ==
  /\ t \in timeouts
  /\ t.at <= AppNow
  /\ timeouts' = timeouts \ {t}
  /\ posts' = IF t.timer # NoEntry /\ timers[t.timer].state = RUNNING
              THEN PostsAfterSend(t.timer)
              ELSE posts
  /\ response' = NoResponse
  /\ UNCHANGED <<exited, now, timers, activeTimers, inflight, sessions, saveCalls,
                 prompts, requests, stopped>>

\* DiscordRequest returns, or throws into the catch of lines 399-403, which
\* runs `delete activeTimers[timerId]` with the key of the callback's object
P0PostReturns(o, ok) ==
  /\ posts[o] > 0
  /\ posts' = [posts EXCEPT ![o] = @ - 1]
  /\ prompts' = PromptsAfterSend(o, ok)
  /\ activeTimers' = IF ok
                     THEN activeTimers
                     ELSE AppDelete(<<timers[o].userId, timers[o].guildId>>)
  /\ response' = NoResponse
  /\ UNCHANGED <<exited, now, timers, timeouts, inflight, sessions, saveCalls,
                 requests, stopped>>

\* timer_resume (lines 62-68, 121-127): the call
\* scheduleTimerEnd(req.body.token, timerInfo) binds the token, a string,
\* to the one parameter of scheduleTimerEnd (line 362). setTimeout is
\* called with the delay NaN, and storing its handle on the string throws
\* inside the async function, whose promise nobody awaits and nothing
\* handles: the handler goes on to its answer, and node ends the process on
\* the unhandled rejection. The entry was set running with its new end time
\* and its old handle, and the callback that was armed belongs to no entry.
\* A resume that is rejected, or that finds the entry not paused, makes no
\* such call and the process lives on.
P0TimerResume(u, g, m) ==
  /\ m \in 1..Len(timers)
  /\ Accept
  /\ LET o == activeTimers[<<u, g>>]
     IN IF AppControlRejected(u, g)
        THEN /\ response' = Respond("not_owner", u, g)
             /\ UNCHANGED <<timers, timeouts, exited>>
        ELSE /\ IF timers[o].state = PAUSED
                THEN /\ timers' = [timers EXCEPT
                                     ![o].state = RUNNING,
                                     ![o].endTime = AppNow + timers[o].remainingTime]
                     /\ timeouts' = timeouts \cup
                          {[id |-> NewTimeoutId, timer |-> NoEntry, at |-> AppNow]}
                     /\ exited' = TRUE
                ELSE UNCHANGED <<timers, timeouts, exited>>
             /\ response' = Respond("timer_update", u, g)
  /\ UNCHANGED <<now, activeTimers, inflight, sessions, saveCalls, prompts, posts,
                 stopped>>

\* task_incomplete up to its first await, or to its answer when there is no
\* entry or the planned span is under ten minutes (lines 160-177, 196-204)
P0TaskIncomplete(u, g, m) ==
  /\ m \in 1..Len(timers)
  /\ Accept
  /\ LET o == activeTimers[<<u, g>>]
         elapsedTime == (timers[o].endTime - timers[o].startTime) \div 1000
     IN IF o # NoEntry /\ elapsedTime >= P0MinIncompleteSeconds
        THEN /\ CanInvokeSave
             /\ saveCalls' = [saveCalls EXCEPT ![o] = @ + 1]
             /\ inflight' = Suspend("p0_incomplete_await_save", u, g, o,
                                    elapsedTime)
             /\ response' = NoResponse
        ELSE /\ response' = Respond("incomplete_ack", u, g)
             /\ UNCHANGED <<inflight, saveCalls>>
  /\ UNCHANGED <<exited, now, timers, activeTimers, timeouts, sessions, prompts, posts,
                 stopped>>

\* saveStudySession returns, or throws into the catch of lines 189-192, which
\* deletes the key and falls to the default answer (lines 171-179, 196-204)
P0IncompleteSaveReturns(i, ok) ==
  /\ inflight[i].pc = "p0_incomplete_await_save"
  /\ LET r == inflight[i]
     IN IF ok
        THEN /\ sessions' = Append(sessions, AppRow(r, "task_incomplete"))
             /\ inflight' = [inflight EXCEPT
                               ![i].pc = "p0_incomplete_await_stats"]
             /\ response' = NoResponse
             /\ UNCHANGED activeTimers
        ELSE /\ activeTimers' = AppDelete(<<r.user, r.guild>>)
             /\ response' = Respond("incomplete_ack", r.user, r.guild)
             /\ inflight' = [inflight EXCEPT ![i] = Idle]
             /\ UNCHANGED sessions
  /\ UNCHANGED <<exited, now, timers, timeouts, saveCalls, prompts, posts, requests,
                 stopped>>

\* getUserStats returns and the key is deleted, or it throws into the same
\* catch (lines 179-204)
P0IncompleteStatsReturns(i, ok) ==
  /\ inflight[i].pc = "p0_incomplete_await_stats"
  /\ LET r == inflight[i]
     IN /\ activeTimers' = AppDelete(<<r.user, r.guild>>)
        /\ response' = IF ok
                       THEN Respond("incomplete_saved", r.user, r.guild)
                       ELSE Respond("incomplete_ack", r.user, r.guild)
        /\ inflight' = [inflight EXCEPT ![i] = Idle]
  /\ UNCHANGED <<exited, now, timers, timeouts, sessions, saveCalls, prompts, posts,
                 requests, stopped>>

P0Start == \E u \in Users, g \in Guilds, d \in P0Durations :
             P0TimerCommand(u, g, d)
P0Fire == \E t \in timeouts : P0TimerFires(t)
P0PostContinues == \E o \in 1..MaxTimers, ok \in BOOLEAN :
                     P0PostReturns(o, ok)
P0Resume == \E u \in Users, g \in Guilds, m \in 1..MaxTimers :
              P0TimerResume(u, g, m)
P0Incomplete == \E u \in Users, g \in Guilds, m \in 1..MaxTimers :
                  P0TaskIncomplete(u, g, m)
P0IncompleteContinues ==
  \E i \in 1..MaxInflight, ok \in BOOLEAN :
     P0IncompleteSaveReturns(i, ok) \/ P0IncompleteStatsReturns(i, ok)

\* the whole route of part_000 (lines 27-306) and the callback, for as long
\* as the process runs: once it has ended, no request is handled, no callback
\* fires and no awaited call returns into a handler
P0Next ==
  \/ (~exited /\ AppTick)
  \/ (~exited /\ P0Fire)
  \/ (~exited /\ P0PostContinues)
  \/ (~exited /\ AppStopContinues)
  \/ (~exited /\ AppCompleteContinues)
  \/ (~exited /\ P0IncompleteContinues)
  \/ (~exited /\ AppQueryContinues)
  \/ (~exited /\ P0Start)
  \/ (~exited /\ AppPause)
  \/ (~exited /\ P0Resume)
  \/ (~exited /\ AppStop)
  \/ (~exited /\ AppComplete)
  \/ (~exited /\ P0Incomplete)
  \/ (~exited /\ AppPong)
  \/ (~exited /\ AppStats)
  \/ (~exited /\ AppLeaderboard)
  \/ (~exited /\ AppUnknown)

SpecP0 == Init /\ [][P0Next]_vars

\* ======================================================== properties

KeyOf(o) == <<timers[o].userId, timers[o].guildId>>

SessionsOf(o) == Cardinality({i \in 1..Len(sessions) : sessions[i].timer = o})

AwaitingSave(i) ==
  inflight[i].pc \in {"stop_await_save", "completion_await_save"}

\* C1: saveStudySession is invoked at most once for any one timer entry,
\* whatever the interleaving of stop and completion requests.
C1_SaveInvokedAtMostOnce == \A o \in 1..MaxTimers : saveCalls[o] <= 1

\* C2: when requests are handled one after another, at most one session is
\* recorded for any one timer entry.
C2_AtMostOneSessionInSequence == \A o \in 1..MaxTimers : SessionsOf(o) <= 1

\* an entry with its session recorded has just answered a later stop or
\* completion with "already saved"
C2_Witness ==
  /\ response.kind \in {"stopped_already_saved", "already_saved"}
  /\ LET o == activeTimers[<<response.user, response.guild>>]
     IN o # NoEntry /\ timers[o].saved /\ SessionsOf(o) = 1

\* C3: in app.js, pressing task_complete repeatedly in sequence for the same
\* entry never persists a session twice.
C3_CompleteTwicePersistsOnce ==
  \A o \in 1..MaxTimers :
    Cardinality({i \in 1..Len(sessions) :
                   sessions[i].timer = o /\ sessions[i].via = "task_complete"}) <= 1

\* C4: no completion prompt is delivered for an entry that a later /timer
\* start has replaced under its key.
C4_NoPromptForSupersededEntry ==
  [][\A o \in 1..Len(timers) :
       prompts'[o] > prompts[o] => activeTimers[KeyOf(o)] = o]_vars

\* C5: once timer_stop has been processed for an entry, or its completion has
\* been accepted, every later pause, resume or stop for its key is answered
\* with the no-active-timer response, changes no field of the entry and arms
\* no callback.
Terminal(o) == o \in stopped \/ timers[o].state = COMPLETED

C5_TerminalEntryRejectsControls ==
  [][\A u \in Users, g \in Guilds, m \in 1..MaxTimers :
       LET o == activeTimers[<<u, g>>]
       IN (/\ o # NoEntry
           /\ Terminal(o)
           /\ \/ timer_pause(u, g, m)
              \/ timer_resume(u, g, m)
              \/ timer_stop(u, g, m))
          => /\ response'.kind = "no_timer"
             /\ timers'[o] = timers[o]
             /\ timeouts' \subseteq timeouts]_vars

\* C6: after a timer_stop request has been fully handled the registry holds
\* no entry for that key.
C6_StopRemovesEntry ==
  [][\A o \in 1..Len(timers) :
       (o \in stopped' /\ o \notin stopped) => activeTimers'[KeyOf(o)] = NoEntry]_vars

\* C7: every elapsed value passed to saveStudySession lies between 0 and the
\* entry's planned duration.
C7_SavedElapsedWithinPlanned ==
  \A i \in 1..MaxInflight :
    AwaitingSave(i) =>
      /\ 0 <= inflight[i].elapsed
      /\ inflight[i].elapsed <= timers[inflight[i].timer].duration

\* C8: a timer_stop processed while the entry is Running at or after its
\* scheduled end computes elapsed equal to the planned duration.
C8_StopPastEndYieldsPlanned ==
  [][\A u \in Users, g \in Guilds, m \in 1..MaxTimers :
       LET o == activeTimers[<<u, g>>]
       IN (/\ o # NoEntry
           /\ timers[o].state = RUNNING
           /\ now >= timers[o].endTime
           /\ timer_stop(u, g, m))
          => calculateElapsedTime(timers[o], now) = timers[o].duration]_vars

\* C9: no session with elapsed below the 60 second threshold is persisted,
\* and a request answered "too short" leaves saved = false.
C9_NoShortSessionPersisted ==
  /\ [](\A i \in 1..Len(sessions) : sessions[i].elapsed >= MinSavableSeconds)
  /\ [][\A u \in Users, g \in Guilds :
          (/\ response'.kind \in {"stopped_too_short", "too_short"}
           /\ response'.user = u
           /\ response'.guild = g)
          => /\ activeTimers[<<u, g>>] # NoEntry
             /\ ~timers'[activeTimers[<<u, g>>]].saved]_vars

\* C10: a control or completion command from an identity other than the owner
\* of the timer whose message it was issued on is rejected with an explanatory
\* response and changes no entry, no callback and no session.
C10_ForeignCommandRejected ==
  [][\A u \in Users, g \in Guilds, m \in 1..Len(timers) :
       (/\ timers[m].userId # u
        /\ \/ timer_pause(u, g, m)
           \/ timer_resume(u, g, m)
           \/ timer_stop(u, g, m)
           \/ \E c \in {"task_complete", "task_incomplete"} :
                handleTaskCompletionButton(u, g, c, m))
       => /\ response'.kind \in {"not_owner", "no_timer", "no_session"}
          /\ timers' = timers
          /\ timeouts' = timeouts
          /\ sessions' = sessions
          /\ saveCalls' = saveCalls]_vars

\* C11: a pause, resume, stop or completion command whose key has no registry
\* entry is answered with the no-active-timer response, and leaves the
\* registry, the entries, the pending callbacks, the suspended handlers and
\* the persisted sessions as they were.
C11_MissingEntryAnswered ==
  [][\A u \in Users, g \in Guilds, m \in 1..MaxTimers :
       (/\ requests' # requests
        /\ activeTimers[<<u, g>>] = NoEntry
        /\ \/ timer_pause(u, g, m)
           \/ timer_resume(u, g, m)
           \/ timer_stop(u, g, m)
           \/ \E c \in {"task_complete", "task_incomplete"} :
                handleTaskCompletionButton(u, g, c, m))
       => /\ response' \in {Respond("no_timer", u, g),
                            Respond("no_session", u, g)}
          /\ activeTimers' = activeTimers
          /\ timers' = timers
          /\ timeouts' = timeouts
          /\ inflight' = inflight
          /\ sessions' = sessions
          /\ saveCalls' = saveCalls]_vars

\* a member without an entry has just been answered, while another member's
\* timer is in the registry with its callback pending
C11_Witness ==
  /\ response.kind \in {"no_timer", "no_session"}
  /\ activeTimers[<<response.user, response.guild>>] = NoEntry
  /\ \E k \in Keys : activeTimers[k] # NoEntry
  /\ timeouts # {}

\* C12: pause followed by resume preserves the remaining time: the pause
\* captures scheduledEnd - t1, nothing changes the captured value while the
\* entry stays paused, and the resume at t2 sets scheduledEnd so that
\* scheduledEnd - t2 is the captured value, with the callback armed for it.
C12_PauseResumeKeepsRemaining ==
  [][\A o \in 1..Len(timers) :
       timers'[o] # timers[o] =>
       /\ (timers[o].state = RUNNING /\ timers'[o].state = PAUSED)
            => timers'[o].remainingTime = timers[o].endTime - now
       /\ (timers[o].state = PAUSED /\ timers'[o].state = PAUSED)
            => timers'[o].remainingTime = timers[o].remainingTime
       /\ (timers[o].state = PAUSED /\ timers'[o].state = RUNNING)
            => /\ timers'[o].endTime - now' = timers[o].remainingTime
               /\ timers[o].remainingTime > 0
                    => \E t \in timeouts' :
                         /\ t.timer = o
                         /\ t.id = timers'[o].timeoutId
                         /\ t.at - now' = timers[o].remainingTime]_vars

\* an entry paused before its end has just been resumed after a pause that
\* lasted, and runs with the remaining time it was paused with
C12_Witness ==
  \E o \in 1..Len(timers) :
    /\ response.kind = "timer_update"
    /\ timers[o].state = RUNNING
    /\ timers[o].pausedAt # NotSet
    /\ timers[o].pausedAt < now
    /\ timers[o].remainingTime > 0
    /\ timers[o].endTime = now + timers[o].remainingTime
    /\ timers[o].endTime > timers[o].startTime + timers[o].duration

\* C13: when saveStudySession fails during timer_stop the entry is removed
\* from the registry, and saveStudySession is invoked at most once for any
\* entry, whether the invocation succeeds or not.
C13_FailedStopSaveIsFinal ==
  /\ [][\A i \in 1..MaxInflight :
          StopSaveReturns(i, FALSE)
            => activeTimers'[KeyOf(inflight[i].timer)] = NoEntry]_vars
  /\ [](\A o \in 1..MaxTimers : saveCalls[o] <= 1)

\* C14: every interaction the route handles is answered exactly once, also
\* when saveStudySession, getUserStats or the outbound request throws: a
\* request is answered in the step that accepts it or suspends at an await,
\* a suspended handler ends only by answering its own requester, and no
\* other step sends a response.
Busy == Cardinality({i \in 1..MaxInflight : inflight[i].pc # "idle"})

C14_OneResponsePerInteraction ==
  [][/\ (requests' - requests) + (Busy - Busy')
          = IF response' = NoResponse THEN 0 ELSE 1
     /\ \A i \in 1..MaxInflight :
          (inflight[i].pc # "idle" /\ inflight'[i].pc = "idle")
            => /\ response'.user = inflight[i].user
               /\ response'.guild = inflight[i].guild]_vars

\* a handler whose getUserStats threw after its session was recorded has
\* just answered with the error message, and no handler is suspended
C14_Witness ==
  /\ response.kind \in {"stopped_save_error", "completion_error"}
  /\ AllIdle
  /\ LET o == activeTimers[<<response.user, response.guild>>]
     IN o # NoEntry /\ timers[o].saved /\ SessionsOf(o) >= 1

\* C15: once a completion interaction has been accepted, its session
\* persisted and its handler has answered, the registry no longer holds the
\* entry.
C15_CompletedEntryLeavesRegistry ==
  \A o \in 1..Len(timers) :
    (/\ timers[o].state = COMPLETED
     /\ ~\E i \in 1..MaxInflight :
           /\ inflight[i].pc \in {"completion_await_stats",
                                   "completion_await_patch"}
           /\ inflight[i].timer = o)
    => activeTimers[KeyOf(o)] # o

\* C16: a completion interaction sets state = COMPLETED and saved = true
\* exactly when its checks passed (entry present, caller the owner, saved
\* read as false, elapsed at least the threshold) and its saveStudySession
\* call returned; a rejected interaction, a failed save and the stats query
\* leave every field of every entry as it was.
C16_CompletionMarksOnlyOnSavedSession ==
  [][/\ response'.kind \in {"no_session", "not_owner", "already_saved",
                            "too_short", "completion_error"}
          => timers' = timers
     /\ response'.kind \in {"no_session", "already_saved", "too_short"}
          => /\ CompletionRejected(response'.user, response'.guild)
             /\ inflight' = inflight
             /\ sessions' = sessions
     /\ \A i \in 1..MaxInflight :
          inflight'[i] # inflight[i] =>
          /\ (inflight[i].pc = "idle" /\ inflight'[i].pc = "completion_await_save")
               => /\ ~CompletionRejected(inflight'[i].user, inflight'[i].guild)
                  /\ inflight'[i].timer =
                       activeTimers[<<inflight'[i].user, inflight'[i].guild>>]
                  /\ timers' = timers
          /\ CompletionSaveReturns(i, FALSE) => timers' = timers
          /\ (\E ok \in BOOLEAN : \/ CompletionStatsReturns(i, ok)
                                   \/ CompletionPatchReturns(i, ok))
               => timers' = timers
          /\ CompletionSaveReturns(i, TRUE)
               => LET o == inflight[i].timer
                  IN /\ timers' = [timers EXCEPT ![o].saved = TRUE,
                                                 ![o].state = COMPLETED]
                     /\ inflight[i].user = timers[o].userId
                     /\ inflight[i].elapsed >= MinSavableSeconds
                     /\ sessions' # sessions
     /\ \A o \in 1..Len(timers) :
          (timers[o].state # COMPLETED /\ timers'[o].state = COMPLETED)
            => \E i \in 1..MaxInflight :
                 CompletionSaveReturns(i, TRUE) /\ inflight[i].timer = o]_vars

\* an entry whose first completion failed at saveStudySession, and was left
\* as it was, has been completed by a second one
C16_Witness ==
  /\ response.kind = "completion_saved"
  /\ LET o == activeTimers[<<response.user, response.guild>>]
     IN /\ o # NoEntry
        /\ timers[o].saved
        /\ timers[o].state = COMPLETED
        /\ saveCalls[o] = 2
        /\ SessionsOf(o) = 1

\* C17: a timer_stop processed while the entry is paused computes
\* elapsed = duration - remainingTime, where remainingTime is the snapshot
\* endTime - pausedAt taken by the pause; the value is the one handed to
\* saveStudySession or compared with the threshold, and it is the same
\* whatever the clock shows and however long the entry stays paused.
C17_PausedStopUsesPauseSnapshot ==
  [][/\ \A o \in 1..Len(timers) :
          (timers[o].state = PAUSED /\ timers'[o].state = PAUSED)
            => calculateElapsedTime(timers'[o], now')
                 = calculateElapsedTime(timers[o], now)
     /\ requests' # requests =>
          \A u \in Users, g \in Guilds, m \in 1..MaxTimers :
            LET o == activeTimers[<<u, g>>]
            IN (/\ o # NoEntry
                /\ timers[o].state = PAUSED
                /\ timer_stop(u, g, m))
               => LET e == timers[o].duration - timers[o].remainingTime
                  IN /\ timers[o].remainingTime
                          = timers[o].endTime - timers[o].pausedAt
                     /\ \A n \in 0..MaxTime :
                          calculateElapsedTime(timers[o], n) = e
                     /\ response'.kind = "stopped_too_short"
                          <=> e < MinSavableSeconds
                     /\ \A i \in 1..MaxInflight :
                          inflight'[i] # inflight[i]
                            => /\ inflight'[i].pc = "stop_await_save"
                               /\ inflight'[i].timer = o
                               /\ inflight'[i].elapsed = e]_vars

\* a stop of an entry paused some time ago has been answered "too short"
\* from the snapshot, when the time on the clock since the start had
\* reached the threshold
C17_Witness ==
  /\ response.kind = "stopped_too_short"
  /\ LET o == activeTimers[<<response.user, response.guild>>]
     IN /\ o # NoEntry
        /\ timers[o].state = PAUSED
        /\ timers[o].pausedAt < now
        /\ timers[o].duration - timers[o].remainingTime < MinSavableSeconds
        /\ Min(now, timers[o].endTime) - timers[o].startTime
             >= MinSavableSeconds

\* C18: parseTimerInput on "<d>m <label>" yields duration d * 60 and the
\* label without its surrounding white space as task; on the empty input it
\* yields 1500 seconds and the default label of the username; a duration
\* with no label after it yields the default label.
RECURSIVE Decimal(_)
Decimal(d) ==
  LET digit == CHOOSE c \in {"0", "1", "2", "3", "4", "5", "6", "7", "8", "9"} :
                 DigitValue(c) = d % 10
  IN IF d < 10 THEN <<digit>> ELSE Append(Decimal(d \div 10), digit)

Spaces(n) == [i \in 1..n |-> " "]

\* t is label without the white space around it
IsTrimmed(t, label) ==
  /\ t # <<>> => (t[1] # " " /\ t[Len(t)] # " ")
  /\ \E a, b \in 0..Len(label) : label = Spaces(a) \o t \o Spaces(b)

IsPrefix(p, str) == Len(p) <= Len(str) /\ SubSeq(str, 1, Len(p)) = p

C18_ParseTimerInput ==
  \A o \in 1..Len(timers) :
    LET input    == timers[o].input
        username == timers[o].userId
    IN /\ input = <<>>
          => /\ timers[o].duration = 1500
             /\ timers[o].task = DefaultTask(username)
       /\ \A d \in 0..MaxMinutes :
            /\ IsPrefix(Decimal(d) \o <<"m", " ">>, input)
                 => LET label == SubSeq(input, Len(Decimal(d)) + 3, Len(input))
                    IN /\ timers[o].duration = d * 60
                       /\ \/ IsTrimmed(timers[o].task, label)
                          \/ /\ IsTrimmed(<<>>, label)
                             /\ timers[o].task = DefaultTask(username)
            /\ \A unit \in {"h", "m", "s"} :
                 input = Append(Decimal(d), unit)
                   => timers[o].task = DefaultTask(username)

\* "2m a " was parsed: 120 seconds, task "a"
C18_Witness ==
  /\ Len(timers) = 1
  /\ timers[1].input = <<"2", "m", " ", "a", " ">>
  /\ timers[1].duration = 120
  /\ timers[1].task = <<"a">>

\* C19: every registry key has at most one pending notifier callback,
\* counting the callbacks armed for entries stored under the key earlier.
C19_OnePendingCallbackPerKey ==
  \A k \in Keys : Cardinality({t \in timeouts : KeyOf(t.timer) = k}) <= 1

\* C20: an entry whose state is Paused has no pending notifier callback.
C20_PausedEntryHasNoCallback ==
  \A o \in 1..Len(timers) :
    timers[o].state = PAUSED => ~\E t \in timeouts : t.timer = o

\* an entry was paused before its end, when its callback was armed, while
\* the callback of another entry is still pending
C20_Witness ==
  \E o \in 1..Len(timers) :
    /\ timers[o].state = PAUSED
    /\ timers[o].remainingTime > 0
    /\ \E t \in timeouts : t.timer # o

\* C21: an entry that is in the registry with state Running, and whose
\* scheduled end has not been reached, has a pending notifier callback armed
\* for that end time.
C21_RunningEntryHasCallback ==
  \A o \in 1..Len(timers) :
    (/\ activeTimers[KeyOf(o)] = o
     /\ timers[o].state = RUNNING
     /\ now < timers[o].endTime)
    => \E t \in timeouts :
         /\ t.timer = o
         /\ t.id = timers[o].timeoutId
         /\ t.at = timers[o].endTime

\* C22: once a timer_stop has been processed for an entry, no completion
\* prompt is delivered for that entry afterwards, whatever commands follow.
C22_NoPromptAfterStop ==
  [][\A o \in 1..Len(timers) :
       o \in stopped => prompts'[o] = prompts[o]]_vars

\* C23: a completion prompt is delivered for an entry only if the entry's
\* state is Running at the moment of delivery, and a callback that fires for
\* an entry that is not Running does nothing: it is spent and every other
\* part of the state is left as it was.  A callback fires in the one step
\* that takes a callback off the pending set without accepting a request.
SpentCallbackDoesNothing ==
  (requests' = requests /\ timeouts' # timeouts)
    => \A t \in timeouts \ timeouts' :
         timers[t.timer].state # RUNNING
           => /\ timeouts' = timeouts \ {t}
              /\ UNCHANGED <<now, timers, activeTimers, inflight, sessions,
                             saveCalls, prompts, posts, stopped>>

C23_PromptOnlyWhileRunning ==
  [][/\ \A o \in 1..Len(timers) :
          prompts'[o] # prompts[o] => timers'[o].state = RUNNING
     /\ SpentCallbackDoesNothing]_vars

\* C23, with the state read when the prompt is sent: the POST of a
\* completion prompt is sent for an entry only while the entry's state is
\* Running, a prompt is delivered only as the answer to a POST that was
\* sent, and a callback that fires for an entry that is not Running does
\* nothing.
C23_PromptSentOnlyWhileRunning ==
  [][/\ \A o \in 1..Len(timers') :
          /\ posts'[o] > posts[o] => timers'[o].state = RUNNING
          /\ prompts'[o] # prompts[o] => posts'[o] = posts[o] - 1
     /\ SpentCallbackDoesNothing]_vars

\* the callback of an entry that was completed at its end time, and was
\* neither paused nor stopped, is spent, and no POST was sent for it; the
\* prompt of another entry, sent while it was Running, was delivered after
\* the entry had been paused
C23_Witness ==
  \E o, q \in 1..Len(timers) :
    /\ timers[o].state = COMPLETED
    /\ timers[o].pausedAt = NotSet
    /\ o \notin stopped
    /\ timers[o].timeoutId # NoTimeout
    /\ ~\E t \in timeouts : t.timer = o
    /\ prompts[o] = 0
    /\ posts[o] = 0
    /\ timers[q].state = PAUSED
    /\ timers[q].remainingTime = 0
    /\ prompts[q] = 1
    /\ posts[q] = 0

\* C24: the notifier firing for a Running entry persists no session and
\* invokes no save, and leaves the registry and every field of every entry
\* as they were, both in the step in which the callback sends the POST and
\* in the step in which the POST is answered.
C24_FiringLeavesEntry ==
  [][/\ (requests' = requests /\ timeouts' # timeouts)
          => \A t \in timeouts \ timeouts' :
               timers[t.timer].state = RUNNING
                 => /\ sessions' = sessions
                    /\ saveCalls' = saveCalls
                    /\ inflight' = inflight
                    /\ activeTimers' = activeTimers
                    /\ timers' = timers
     /\ (\E o \in 1..MaxTimers : posts'[o] < posts[o])
          => /\ sessions' = sessions
             /\ saveCalls' = saveCalls
             /\ inflight' = inflight
             /\ activeTimers' = activeTimers
             /\ timers' = timers
             /\ timeouts' = timeouts]_vars

\* the prompt of an entry that was never paused or stopped has been
\* delivered at its end time; the entry is registered and Running, and
\* nothing has been saved
C24_Witness ==
  \E o \in 1..Len(timers) :
    /\ activeTimers[KeyOf(o)] = o
    /\ timers[o].state = RUNNING
    /\ ~timers[o].saved
    /\ timers[o].pausedAt = NotSet
    /\ o \notin stopped
    /\ now >= timers[o].endTime
    /\ ~\E t \in timeouts : t.timer = o
    /\ prompts[o] = 1
    /\ posts[o] = 0
    /\ saveCalls[o] = 0
    /\ sessions = <<>>

\* C25: when the delivery of the completion prompt fails the error is
\* swallowed and the registry is as it was: the step in which a POST is
\* answered without a prompt being delivered changes no entry, no registry
\* slot, no callback, no suspended handler and no session, and sends no
\* response.
C25_FailedDeliveryLeavesRegistry ==
  [][\A o \in 1..MaxTimers :
       (/\ posts'[o] < posts[o]
        /\ prompts'[o] = prompts[o]
        /\ prompts[o] < MaxPrompts)
         => /\ activeTimers' = activeTimers
            /\ timers' = timers
            /\ timeouts' = timeouts
            /\ inflight' = inflight
            /\ sessions' = sessions
            /\ response' = NoResponse]_vars

\* the callback of a registered Running entry, never paused or stopped, has
\* fired at its end time, its POST has failed, and no prompt was delivered
C25_Witness ==
  \E o \in 1..Len(timers) :
    /\ activeTimers[KeyOf(o)] = o
    /\ timers[o].state = RUNNING
    /\ timers[o].pausedAt = NotSet
    /\ o \notin stopped
    /\ saveCalls[o] = 0
    /\ timers[o].timeoutId # NoTimeout
    /\ ~\E t \in timeouts : t.timer = o
    /\ prompts[o] = 0
    /\ posts[o] = 0

\* C26: a timer_pause on an entry that is not Running, and a timer_resume
\* on an entry that is not Paused, change no field of any entry, arm and
\* cancel no callback, send and deliver no prompt, and answer with the re-rendered
\* timer message.  An accepted pause or resume answers its own requester
\* with the timer message in the step that handles it, so only such steps
\* are looked at.
C26_IllegalPauseResumeIsNoOp ==
  [][(requests' # requests /\ response'.kind = "timer_update")
       => \A u \in {response'.user}, g \in {response'.guild} :
            LET o == activeTimers[<<u, g>>]
            IN (/\ ~ControlRejected(u, g)
                /\ \/ timers[o].state # RUNNING /\ timer_pause(u, g, 1)
                   \/ timers[o].state # PAUSED /\ timer_resume(u, g, 1))
               => /\ timers' = timers
                  /\ timeouts' = timeouts
                  /\ prompts' = prompts
                  /\ posts' = posts
                  /\ activeTimers' = activeTimers
                  /\ response' = Respond("timer_update", u, g)]_vars

\* a pause pressed on an entry that had been paused earlier has just been
\* answered: the entry keeps the time of its first pause
C26_Witness ==
  /\ response.kind = "timer_update"
  /\ LET o == activeTimers[<<response.user, response.guild>>]
     IN /\ o # NoEntry
        /\ timers[o].state = PAUSED
        /\ timers[o].pausedAt < now
        /\ timers[o].remainingTime = timers[o].endTime - timers[o].pausedAt

\* C27: the saved flag of an entry is monotone: an entry is created with
\* saved = false, and no step sets the flag of an entry back to false once
\* it is true.
C27_SavedIsMonotone ==
  [][timers' # timers
       => /\ \A o \in 1..Len(timers) : timers[o].saved => timers'[o].saved
          /\ \A o \in (Len(timers) + 1)..Len(timers') : ~timers'[o].saved]_vars

\* an entry whose session is recorded has just been paused, and is still
\* marked saved
C27_Witness ==
  /\ response.kind = "timer_update"
  /\ LET o == activeTimers[<<response.user, response.guild>>]
     IN /\ o # NoEntry
        /\ timers[o].saved
        /\ SessionsOf(o) >= 1
        /\ timers[o].state = PAUSED
        /\ timers[o].pausedAt = now

\* C28: the owner, the group, the planned duration and the start time of an
\* entry are never changed once the entry is created.
C28_IdentityFieldsImmutable ==
  [][timers' # timers
       => \A o \in 1..Len(timers) :
            /\ timers'[o].userId = timers[o].userId
            /\ timers'[o].guildId = timers[o].guildId
            /\ timers'[o].duration = timers[o].duration
            /\ timers'[o].startTime = timers[o].startTime]_vars

\* an entry started at 0 has been paused, resumed later, and completed: it
\* still has its owner's key, its planned duration and its start time
C28_Witness ==
  \E o \in 1..Len(timers) :
    /\ timers[o].state = COMPLETED
    /\ timers[o].pausedAt # NotSet
    /\ timers[o].endTime > timers[o].startTime + timers[o].duration
    /\ prompts[o] >= 1
    /\ activeTimers[KeyOf(o)] = o
    /\ timers[o].startTime = 0
    /\ timers[o].duration \in Durations

\* C30: whenever an entry is Paused its remaining time lies between 0 and
\* its planned duration.
C30_PausedRemainingWithinPlanned ==
  \A o \in 1..Len(timers) :
    timers[o].state = PAUSED
      => /\ 0 <= timers[o].remainingTime
         /\ timers[o].remainingTime <= timers[o].duration

\* C29: an entry created by a start command that is never paused, stopped
\* or replaced eventually has its notifier fire and the delivery of its
\* completion prompt attempted, when time passes and due callbacks are run.
StopProcessed(o) ==
  \/ o \in stopped
  \/ \E i \in 1..MaxInflight :
       /\ inflight[i].pc \in {"stop_await_save", "stop_await_stats"}
       /\ inflight[i].timer = o

\* the entry has been paused, stopped or replaced under its key
Disturbed(o) ==
  \/ timers[o].pausedAt # NotSet
  \/ StopProcessed(o)
  \/ activeTimers[KeyOf(o)] # o

\* the callback of the undisturbed entry has run while the entry was Running:
\* the request that delivers the prompt was made
Notified(o) ==
  /\ timers[o].state = RUNNING
  /\ timers[o].timeoutId # NoTimeout
  /\ ~\E t \in timeouts : t.timer = o

C29_UndisturbedEntryIsNotified ==
  \A o \in 1..MaxTimers :
    (o <= Len(timers)) ~> (o <= Len(timers) /\ (Notified(o) \/ Disturbed(o)))

\* C31: at most one completion prompt is ever delivered for any one timer
\* entry, whatever pause and resume commands are issued on it.
C31_AtMostOnePromptPerEntry == \A o \in 1..MaxTimers : prompts[o] <= 1

\* C32: the first completion prompt of an entry is never delivered before
\* the entry's current scheduled end time, and that end time is the start
\* time plus the planned duration plus the time spent Paused: the end time
\* moves only when the entry leaves Paused, and then by the length of the
\* pause.
C32_NoPromptBeforeScheduledEnd ==
  [][\A o \in 1..Len(timers) :
       /\ (prompts[o] = 0 /\ prompts'[o] > 0)
            => now' >= timers'[o].endTime
       /\ timers'[o].endTime # timers[o].endTime
            => /\ timers[o].state = PAUSED
               /\ timers'[o].state = RUNNING
               /\ timers'[o].endTime
                    = timers[o].endTime + (now - timers[o].pausedAt)
       /\ (timers[o].state = RUNNING /\ timers'[o].state = PAUSED)
            => timers'[o].pausedAt = now]_vars

\* the first prompt of an entry that was paused for a while before its end
\* has been delivered, at its shifted end time
C32_Witness ==
  \E o \in 1..Len(timers) :
    /\ prompts[o] = 1
    /\ timers[o].state = RUNNING
    /\ timers[o].pausedAt # NotSet
    /\ timers[o].remainingTime > 0
    /\ timers[o].endTime > timers[o].startTime + timers[o].duration
    /\ now >= timers[o].endTime
    /\ ~\E t \in timeouts : t.timer = o
    /\ posts[o] = 0

\* C33: a timer whose planned duration is below the 60 second threshold is
\* never persisted, whatever pause, resume, stop and completion commands
\* are issued on it.
C33_ShortTimerNeverPersisted ==
  \A i \in 1..Len(sessions) :
    timers[sessions[i].timer].duration >= MinSavableSeconds

\* C34: a session is persisted through a completion interaction only for
\* an entry whose completion prompt has been delivered: never while the
\* entry's notifier is still pending.
C34_CompletionOnlyAfterNotifier ==
  [][sessions' # sessions
       => \A i \in (Len(sessions) + 1)..Len(sessions') :
            sessions'[i].via = "completion"
              => ~\E t \in timeouts : t.timer = sessions'[i].timer]_vars

\* C35: in src/app.js a timer_stop removes from the registry only the entry
\* it stopped: when the stop handler finishes, an entry registered under the
\* same key while the handler was suspended is still in the registry.
C35_StopRemovesOnlyItsEntry ==
  [][stopped' # stopped
       => \A k \in Keys :
            activeTimers'[k] # activeTimers[k]
              => activeTimers[k] \in (stopped' \ stopped)]_vars

\* C36: in the variant whose notifier cleans up on delivery failure, the
\* cleanup removes only the entry whose callback fired: the failed delivery
\* of a superseded entry's prompt never removes a later entry registered
\* under the same key.
C36_CleanupRemovesOnlyFiredEntry ==
  [][\A o \in 1..MaxTimers :
       posts'[o] < posts[o]
         => \A k \in Keys :
              activeTimers'[k] # activeTimers[k]
                => activeTimers[k] = o]_vars

\* C37: whenever the completion handler answers 'Error saving your session.
\* Please try again.', no session was recorded for the entry and its saved
\* flag is still false.
C37_ErrorAnswerMeansNothingSaved ==
  [][\A i \in 1..MaxInflight :
       (/\ inflight[i].pc \in {"completion_await_save",
                               "completion_await_stats"}
        /\ inflight'[i].pc = "idle"
        /\ response'.kind = "completion_error")
         => /\ ~timers'[inflight[i].timer].saved
            /\ ~\E j \in 1..Len(sessions') :
                  sessions'[j].timer = inflight[i].timer]_vars

\* C38: in every reachable state an entry in state COMPLETED has saved =
\* true, and saved = true only if a saveStudySession call for that entry
\* returned successfully, so a row for the entry is in study_sessions.
C38_CompletedIsSavedAndSavedIsRecorded ==
  \A o \in 1..Len(timers) :
    /\ timers[o].state = COMPLETED => timers[o].saved
    /\ timers[o].saved => SessionsOf(o) >= 1

\* one entry was completed and recorded, and a saveStudySession call for
\* another entry threw and left its flag false
C38_Witness ==
  \E o, q \in 1..Len(timers) :
    /\ timers[o].state = COMPLETED
    /\ timers[o].saved
    /\ SessionsOf(o) = 1
    /\ saveCalls[q] >= 1
    /\ ~timers[q].saved
    /\ SessionsOf(q) = 0
    /\ AllIdle

\* C39: timers under different keys are independent: a start, pause, resume,
\* stop, completion or firing for one key leaves the registry entry, the
\* pending callback and the persisted sessions of every other key unchanged.
\* Every step touches at most one key, the key of the request it answers, of
\* the handler it suspends or continues, of the callback it runs and of the
\* prompt it sends or delivers.
C39_KeysAreIndependent ==
  [][(timers' # timers \/ activeTimers' # activeTimers
        \/ timeouts' # timeouts \/ sessions' # sessions
        \/ posts' # posts)
       => Cardinality(
            {k \in Keys :
               \/ activeTimers'[k] # activeTimers[k]
               \/ \E o \in 1..Len(timers') :
                    /\ <<timers'[o].userId, timers'[o].guildId>> = k
                    /\ \/ o > Len(timers)
                       \/ timers'[o] # timers[o]
                       \/ posts'[o] # posts[o]
                       \/ prompts'[o] # prompts[o]
               \/ {t \in timeouts : KeyOf(t.timer) = k}
                    # {t \in timeouts' :
                         <<timers'[t.timer].userId,
                           timers'[t.timer].guildId>> = k}
               \/ SelectSeq(sessions',
                            LAMBDA r : <<r.userId, r.guildId>> = k)
                    # SelectSeq(sessions,
                                LAMBDA r : <<r.userId, r.guildId>> = k)
               \/ (response'.kind # "none"
                     /\ <<response'.user, response'.guild>> = k)
               \/ \E i \in 1..MaxInflight :
                    /\ inflight'[i] # inflight[i]
                    /\ \/ (inflight[i].pc # "idle"
                             /\ <<inflight[i].user, inflight[i].guild>> = k)
                       \/ (inflight'[i].pc # "idle"
                             /\ <<inflight'[i].user, inflight'[i].guild>> = k)
            }) <= 1]_vars

\* one member's entry was paused, stopped and saved while another
\* member's entry, started before, is still running as it was created, with
\* its callback pending for its end time and no session
C39_Witness ==
  \E o, q \in 1..Len(timers) :
    /\ KeyOf(o) # KeyOf(q)
    /\ q < o
    /\ activeTimers[KeyOf(o)] = o
    /\ activeTimers[KeyOf(q)] = q
    /\ timers[o].state = PAUSED
    /\ ~\E t \in timeouts : t.timer = o
    /\ timers[o].pausedAt # NotSet
    /\ timers[o].saved
    /\ SessionsOf(o) = 1
    /\ o \in stopped
    /\ timers[q].state = RUNNING
    /\ timers[q].pausedAt = NotSet
    /\ timers[q].endTime = timers[q].startTime + timers[q].duration
    /\ \E t \in timeouts : t.timer = q /\ t.at = timers[q].endTime
    /\ SessionsOf(q) = 0
    /\ saveCalls[q] = 0
    /\ AllIdle

====
